---- MODULE Spec2Model ----
(***************************************************************************)
(* Model of the JSON-RPC client of src/src/client.rs: one Client shared by *)
(* several concurrent callers.  The shared state is the nonce behind its   *)
(* mutex; everything else is local to a call.  A call is cut into steps at *)
(* the points where it can block or be overtaken: the acquisition of the   *)
(* nonce mutex, the statements executed while it is held, and every        *)
(* transport operation (send, retry, reading the response).                *)
(*                                                                         *)
(* Two specifications share the actions.  Under Spec the callers overlap   *)
(* freely and a return is logged by its kind only.  Under SerialSpec the   *)
(* callers use the Client one call at a time and every return is logged    *)
(* with the request, the sends, the body read and the value returned.      *)
(***************************************************************************)
EXTENDS Integers, Sequences, FiniteSets, TLC

\* ---------------------------------------------------------------- bounds
NumCallers == 2      \* concurrent callers sharing the Client
MaxBuilds == 2       \* build_request executions (alone or inside do_rpc) in one run

Callers == 1..NumCallers

\* ------------------------------------------------------------ JSON values
\* serde_json::Value, as far as the client distinguishes values.
Null == <<"Null">>
Number(n) == <<"Number", n>>
String(s) == <<"String", s>>
IsNumber(v) == v[1] = "Number"

\* Option<T>
None == <<"None">>
Some(x) == <<"Some", x>>

\* ------------------------------------------------------- inputs of a run
Methods == {"test"}
ParamValues == {String("")}
Tokens == {None, Some("secret")}

\* hyper::error::Error values a send can fail with: Io(kind) or another variant.
IoError(kind) == [tag |-> "Io", kind |-> kind]
HyperErrors ==
    {IoError(k) : k \in {"BrokenPipe", "ConnectionAborted", "ConnectionReset"}}
        \cup {[tag |-> "Status", kind |-> "none"]}
SendOk == [tag |-> "Ok", kind |-> "none"]
SendResults == {SendOk} \cup HyperErrors

\* Bodies the server can answer with: text that is no Response envelope, or the
\* text of an envelope {id, jsonrpc, result, error}.
Malformed == <<"Malformed">>
Json(envelope) == <<"Json", envelope>>
ResponseIds == {Null} \cup {Number(i) : i \in 1..2}
Versions == {None, Some("2.0"), Some("1.0")}
RpcErrorPayload == [code |-> 7, message |-> "boom"]
Envelopes ==
    [id : ResponseIds, jsonrpc : Versions,
     result : {None, Some(Number(42)), Some(String(""))}, error : {None, Some(RpcErrorPayload)}]
Bodies == {Malformed} \cup {Json(e) : e \in Envelopes}

\* What a send that succeeds hands back: the HTTP status, the body, and what
\* reading on after the parsed body meets (the end of the stream, or an error).
Statuses == {200, 500}
Tails == {"eof", "error"}
Stream(status, body, tail) == [status |-> status, body |-> body, tail |-> tail]
Streams == {Stream(st, b, t) : st \in Statuses, b \in Bodies, t \in Tails}
NoStream == [status |-> 0, body |-> None, tail |-> "unread"]

\* What the transport is made to do in the runs where calls overlap, whose log
\* keeps no more than the kind of an outcome: one send result and one body for
\* each way a call can end.
FewSendResults == {SendOk, IoError("BrokenPipe"), IoError("ConnectionReset")}
Envelope(id, version, result, error) ==
    [id |-> id, jsonrpc |-> version, result |-> result, error |-> error]
FewBodies ==
    {Malformed,
     Json(Envelope(Number(1), Some("2.0"), Some(Number(42)), None)),
     Json(Envelope(Number(1), Some("2.0"), None, Some(RpcErrorPayload))),
     Json(Envelope(Number(1), Some("1.0"), Some(Number(42)), None)),
     Json(Envelope(Null, None, Some(Number(42)), None)),
     Json(Envelope(Number(2), None, Some(String("")), None))}
FewStreams == {Stream(200, b, "eof") : b \in FewBodies}

\* ---------------------------------------------------------------- state
VARIABLES
    serial,     \* TRUE in the runs where calls do not overlap (fixed by Init)
    token,      \* Client.token, fixed at construction
    nonce,      \* the u64 behind Client.nonce
    lock,       \* holder of the nonce mutex, 0 when it is free
    pc,         \* pc[c]: where caller c stands in its operation
    op,         \* op[c]: the public operation caller c is running
    request,    \* request[c]: the Request of the call in progress
    attempts,   \* attempts[c]: what the call in progress has sent, send by send
    issued,     \* history: the Requests returned by build_request, in order
    done,       \* history: done[o] calls of o have returned (o draws a nonce)
    event       \* history: what the step just taken let the caller observe

vars == <<serial, token, nonce, lock, pc, op, request, attempts, issued, done, event>>

NoRequest == [method |-> "", params |-> Null, id |-> Null, jsonrpc |-> None]
NoOutcome == [kind |-> "none", value |-> None]
Pending == [tag |-> "Pending", kind |-> "none"]
\* event.kind is "return" when the step returned from a public operation and
\* "retry" when it re-sent; `send` is what the latest send of the call returned;
\* `status`, `body` and `tail` are the stream the call read, `steps` what it did
\* with it, in order.
NoEvent ==
    [kind |-> "none", caller |-> 0, op |-> "none", request |-> NoRequest,
     attempts |-> <<>>, send |-> Pending, body |-> None, outcome |-> NoOutcome,
     status |-> 0, tail |-> "unread", steps |-> <<>>]

\* Result<T, Error>
Ok(v) == [kind |-> "Ok", value |-> v]
Err(kind, v) == [kind |-> kind, value |-> v]

InProgress == {c \in Callers : pc[c] # "idle"}
Building == {c \in Callers : pc[c] \in {"build_inc", "build_ret"}}
DrawingOps == {"do_rpc", "build_request"}

\* Client::new
InitClient ==
    /\ token \in Tokens
    /\ nonce = 0
    /\ lock = 0
    /\ pc = [c \in Callers |-> "idle"]
    /\ op = [c \in Callers |-> "none"]
    /\ request = [c \in Callers |-> NoRequest]
    /\ attempts = [c \in Callers |-> <<>>]
    /\ issued = <<>>
    /\ done = [o \in DrawingOps |-> 0]
    /\ event = NoEvent

Init == serial = FALSE /\ InitClient
InitSerial == serial = TRUE /\ InitClient

\* ------------------------------------------------------- pure functions
\* Mutex::lock returns only when no other caller holds the guard.
\* (faulty variant: the nonce is used without taking the mutex)
MutexAlwaysAvailable(holder) == TRUE
MutexAvailable(holder) == holder = 0

\* *nonce += 1
\* (faulty variants: the increment is left out, or done twice)
NextNonceStuck(n) == n
NextNonceSkips(n) == n + 2
NextNonce(n) == n + 1

\* (faulty variant of the next definition: the id is the nonce as it was before
\* the increment)
NewRequestBeforeIncrement(name, params, n) ==
    [method |-> name, params |-> params, id |-> Number(n - 1), jsonrpc |-> Some("2.0")]

\* The Request literal of build_request, with the nonce read under the guard.
NewRequest(name, params, n) ==
    [method |-> name, params |-> params, id |-> Number(n), jsonrpc |-> Some("2.0")]

\* serde_json::to_vec(request): the fields of the envelope, in order.
ToVec(req) ==
    <<"method", req.method, "params", req.params, "id", req.id, "jsonrpc", req.jsonrpc>>

\* Headers::new(), ContentType::json(), and the bearer token when there is one.
Headers(tok) ==
    {<<"Content-Type", "application/json">>}
        \cup (IF tok # None THEN {<<"Authorization", "Bearer", tok[2]>>} ELSE {})

\* The first match arm that re-sends: Io(e) with e.kind() BrokenPipe or ConnectionAborted.
\* (faulty variant: ConnectionReset is taken for a stale connection too)
IsStaleOrReset(e) ==
    e.tag = "Io" /\ e.kind \in {"BrokenPipe", "ConnectionAborted", "ConnectionReset"}
IsStaleConnection(e) ==
    e.tag = "Io" /\ (e.kind = "BrokenPipe" \/ e.kind = "ConnectionAborted")

\* One send: .post(&self.url).headers(h).body(&raw[..]).send()
Attempt(raw, h) == [bytes |-> raw, headers |-> h]

\* The re-send: the same request_raw, and retry_headers, the clone of headers.
\* (faulty variant: the re-send goes out under Headers::new())
RetryWithNewHeaders(first) == Attempt(first.bytes, {})
RetryAttempt(first) == Attempt(first.bytes, first.headers)

\* serde_json::from_reader(&mut stream) into a Response.
FromReader(body) ==
    IF body[1] = "Json" THEN Ok(body[2]) ELSE Err("Json", "from_reader")

\* response.jsonrpc != None && response.jsonrpc != Some("2.0")
\* (faulty variant: a response without a marker is rejected too)
VersionRequired(response) == response.jsonrpc # Some("2.0")
VersionMismatch(response) ==
    response.jsonrpc # None /\ response.jsonrpc # Some("2.0")

\* response.id != request.id
\* (faulty variant: a null id is let through)
NullIdAccepted(response, req) == response.id # Null /\ response.id # req.id
IdMismatch(response, req) == response.id # req.id

\* (faulty variants: an HTTP error status is returned as an error; the id is
\* checked before the version; an error met while draining is returned; a
\* response that carries an error payload is passed on unvalidated)
SendRequestChecksStatus(req, stream) ==
    LET parsed == FromReader(stream.body) IN
    IF stream.status # 200 THEN Err("Hyper", [tag |-> "Status", kind |-> "none"])
    ELSE IF parsed.kind # "Ok" THEN parsed
    ELSE IF VersionMismatch(parsed.value) THEN Err("VersionMismatch", None)
    ELSE IF IdMismatch(parsed.value, req) THEN Err("NonceMismatch", None)
    ELSE Ok(parsed.value)
SendRequestChecksIdFirst(req, stream) ==
    LET parsed == FromReader(stream.body) IN
    IF parsed.kind # "Ok" THEN parsed
    ELSE IF IdMismatch(parsed.value, req) THEN Err("NonceMismatch", None)
    ELSE IF VersionMismatch(parsed.value) THEN Err("VersionMismatch", None)
    ELSE Ok(parsed.value)
SendRequestDrainCanFail(req, stream) ==
    LET parsed == FromReader(stream.body) IN
    IF parsed.kind # "Ok" THEN parsed
    ELSE IF stream.tail = "error" THEN Err("Hyper", IoError("ConnectionReset"))
    ELSE IF VersionMismatch(parsed.value) THEN Err("VersionMismatch", None)
    ELSE IF IdMismatch(parsed.value, req) THEN Err("NonceMismatch", None)
    ELSE Ok(parsed.value)
SendRequestPassesErrors(req, stream) ==
    LET parsed == FromReader(stream.body) IN
    IF parsed.kind # "Ok" THEN parsed
    ELSE IF parsed.value.error # None THEN Ok(parsed.value)
    ELSE IF VersionMismatch(parsed.value) THEN Err("VersionMismatch", None)
    ELSE IF IdMismatch(parsed.value, req) THEN Err("NonceMismatch", None)
    ELSE Ok(parsed.value)

\* send_request from the parse of the body to its return.  stream.status is
\* not looked at, and stream.bytes().count() only counts what it reads.
SendRequestResult(req, stream) ==
    LET parsed == FromReader(stream.body) IN
    IF parsed.kind # "Ok" THEN parsed
    ELSE IF VersionMismatch(parsed.value) THEN Err("VersionMismatch", None)
    ELSE IF IdMismatch(parsed.value, req) THEN Err("NonceMismatch", None)
    ELSE Ok(parsed.value)

\* The statements of send_request that run on a stream, in the order they run.
ReceiveSteps(req, stream) ==
    LET parsed == FromReader(stream.body) IN
    IF parsed.kind # "Ok" THEN <<"parse">>
    ELSE IF VersionMismatch(parsed.value) THEN <<"parse", "drain", "version">>
    ELSE <<"parse", "drain", "version", "id">>

\* Response::into_result::<T>, T an integer: the error payload if there is one,
\* else the result payload deserialized into T.
IntoResult(response) ==
    IF response.error # None THEN Err("Rpc", response.error[2])
    ELSE IF response.result # None /\ IsNumber(response.result[2])
         THEN Ok(response.result[2][2])
         ELSE Err("Json", "from_value")

\* do_rpc after build_request: send_request(&request)? then into_result()?
\* (faulty variant: a result payload is returned without looking at the error)
DoRpcIgnoresError(sent) ==
    IF sent.kind # "Ok" THEN sent
    ELSE IF sent.value.result # None THEN Ok(sent.value.result[2][2])
    ELSE IntoResult(sent.value)
DoRpcResult(sent) ==
    IF sent.kind # "Ok" THEN sent ELSE IntoResult(sent.value)

\* What the public operation o returns for what send_request returned.
CallResult(o, sent) == IF o = "do_rpc" THEN DoRpcResult(sent) ELSE sent

\* ---------------------------------------------------------------- actions
\* A caller may enter an operation: at any time when calls overlap, and when
\* no other call is in progress in the serial runs.
MayEnter(c) == pc[c] = "idle" /\ (serial => InProgress = {})

\* What the log keeps of an event: all of it in the serial runs; otherwise the
\* caller, the operation, and the kind of the outcome (its value too when the
\* operation is build_request or last_nonce).
Logged(e) ==
    IF serial THEN e
    ELSE [NoEvent EXCEPT !.kind = e.kind, !.caller = e.caller, !.op = e.op,
                         !.outcome = IF e.op \in {"build_request", "last_nonce"}
                                     THEN e.outcome
                                     ELSE [kind |-> e.outcome.kind, value |-> None]]

\* Caller c returns `outcome` from operation o.
Return(c, o, req, sends, res, stream, outcome) ==
    /\ pc' = [pc EXCEPT ![c] = "idle"]
    /\ op' = [op EXCEPT ![c] = "none"]
    /\ request' = [request EXCEPT ![c] = NoRequest]
    /\ attempts' = [attempts EXCEPT ![c] = <<>>]
    /\ done' = IF o \in DrawingOps THEN [done EXCEPT ![o] = @ + 1] ELSE done
    /\ event' = Logged([kind |-> "return", caller |-> c, op |-> o, request |-> req,
                        attempts |-> sends, send |-> res, body |-> stream.body,
                        outcome |-> outcome, status |-> stream.status,
                        tail |-> stream.tail,
                        steps |-> IF stream = NoStream THEN <<>>
                                  ELSE ReceiveSteps(req, stream)])

\* (faulty variant of the next definition: the request goes out before the
\* serializer's error is looked at)
SendRequestSendsUnserialized(c, o, req, serialized) ==
    IF serialized
    THEN /\ pc' = [pc EXCEPT ![c] = "send1"]
         /\ op' = [op EXCEPT ![c] = o]
         /\ request' = [request EXCEPT ![c] = req]
         /\ attempts' = [attempts EXCEPT ![c] = <<Attempt(ToVec(req), Headers(token))>>]
         /\ event' = NoEvent
         /\ UNCHANGED done
    ELSE Return(c, o, req, <<Attempt(<<>>, Headers(token))>>, SendOk, NoStream,
                CallResult(o, Err("Json", "to_vec")))

\* send_request(&req) up to the first send: serde_json::to_vec(request)? either
\* fails, and the Json error is returned, or the headers are set and the bytes sent.
\* Whether to_vec fails is the serializer's answer, an input of the step.
SendRequestBegins(c, o, req, serialized) ==
    IF serialized
    THEN /\ pc' = [pc EXCEPT ![c] = "send1"]
         /\ op' = [op EXCEPT ![c] = o]
         /\ request' = [request EXCEPT ![c] = req]
         /\ attempts' = [attempts EXCEPT ![c] = <<Attempt(ToVec(req), Headers(token))>>]
         /\ event' = NoEvent
         /\ UNCHANGED done
    ELSE Return(c, o, req, <<>>, Pending, NoStream, CallResult(o, Err("Json", "to_vec")))

\* A caller enters do_rpc(rpc_name, args) or build_request(name, params); both
\* begin with build_request: let mut nonce = self.nonce.lock().unwrap();
\* The call is counted from the moment it holds the guard.
CallBuild(c, o, name, params) ==
    /\ MayEnter(c)
    /\ Len(issued) + Cardinality(Building) < MaxBuilds
    /\ MutexAvailable(lock)
    /\ lock' = c
    /\ pc' = [pc EXCEPT ![c] = "build_inc"]
    /\ op' = [op EXCEPT ![c] = o]
    /\ request' = [request EXCEPT ![c] =
                      [method |-> name, params |-> params, id |-> Null, jsonrpc |-> None]]
    /\ event' = NoEvent
    /\ UNCHANGED <<serial, token, nonce, attempts, issued, done>>

\* *nonce += 1;
BuildIncrement(c) ==
    /\ pc[c] = "build_inc"
    /\ nonce' = NextNonce(nonce)
    /\ pc' = [pc EXCEPT ![c] = "build_ret"]
    /\ event' = NoEvent
    /\ UNCHANGED <<serial, token, lock, op, request, attempts, issued, done>>

\* Request { .., id: From::from(*nonce), .. } is returned and the guard dropped.
BuildRequestReturns(c) ==
    LET req == NewRequest(request[c].method, request[c].params, nonce) IN
    /\ pc[c] = "build_ret"
    /\ op[c] = "build_request"
    /\ lock' = 0
    /\ issued' = Append(issued, req)
    /\ Return(c, "build_request", req, <<>>, Pending, NoStream, Ok(req))
    /\ UNCHANGED <<serial, token, nonce>>

\* (faulty variant of the next action: do_rpc keeps the guard while it sends)
DoRpcSendsUnderGuard(c, serialized) ==
    LET req == NewRequest(request[c].method, request[c].params, nonce) IN
    /\ pc[c] = "build_ret"
    /\ op[c] = "do_rpc"
    /\ issued' = Append(issued, req)
    /\ SendRequestBegins(c, "do_rpc", req, serialized)
    /\ UNCHANGED <<serial, token, nonce, lock>>

\* The same inside do_rpc, which goes on with send_request(&request).
DoRpcSends(c, serialized) ==
    LET req == NewRequest(request[c].method, request[c].params, nonce) IN
    /\ pc[c] = "build_ret"
    /\ op[c] = "do_rpc"
    /\ lock' = 0
    /\ issued' = Append(issued, req)
    /\ SendRequestBegins(c, "do_rpc", req, serialized)
    /\ UNCHANGED <<serial, token, nonce>>

\* (faulty variant of the next action: send_request draws a fresh id for the
\* Request it is given)
CallSendRequestDraws(c, req, serialized) ==
    /\ MayEnter(c)
    /\ nonce' = NextNonce(nonce)
    /\ SendRequestBegins(c, "send_request", [req EXCEPT !.id = Number(nonce')], serialized)
    /\ UNCHANGED <<serial, token, lock, issued>>

\* A caller enters the public send_request with a Request built earlier.
CallSendRequest(c, req, serialized) ==
    /\ MayEnter(c)
    /\ SendRequestBegins(c, "send_request", req, serialized)
    /\ UNCHANGED <<serial, token, nonce, lock, issued>>

\* (faulty variant of the next action: the re-send builds its request anew)
FirstSendRedraws(c, res) ==
    LET again == NewRequest(request[c].method, request[c].params, nonce + 1) IN
    /\ pc[c] = "send1"
    /\ IF res = SendOk
       THEN /\ pc' = [pc EXCEPT ![c] = "recv"]
            /\ event' = NoEvent
            /\ UNCHANGED <<nonce, op, request, attempts, done>>
       ELSE IF IsStaleConnection(res)
       THEN /\ pc' = [pc EXCEPT ![c] = "send2"]
            /\ nonce' = nonce + 1
            /\ request' = [request EXCEPT ![c] = again]
            /\ attempts' = [attempts EXCEPT ![c] =
                               Append(@, Attempt(ToVec(again), Headers(token)))]
            /\ event' = Logged([kind |-> "retry", caller |-> c, op |-> op[c],
                                request |-> again, attempts |-> attempts'[c],
                                send |-> res, body |-> None, outcome |-> NoOutcome,
                                status |-> 0, tail |-> "unread", steps |-> <<>>])
            /\ UNCHANGED <<op, done>>
       ELSE /\ Return(c, op[c], request[c], attempts[c], res, NoStream,
                      CallResult(op[c], Err("Hyper", res)))
            /\ UNCHANGED nonce
    /\ UNCHANGED <<serial, token, lock, issued>>

\* hyper_request.send() returns: a stream; or Io(BrokenPipe | ConnectionAborted),
\* and the request is sent once more; or another error, returned as Error::Hyper.
FirstSendReturns(c, res) ==
    /\ pc[c] = "send1"
    /\ IF res = SendOk
       THEN /\ pc' = [pc EXCEPT ![c] = "recv"]
            /\ event' = NoEvent
            /\ UNCHANGED <<op, request, attempts, done>>
       ELSE IF IsStaleConnection(res)
       THEN /\ pc' = [pc EXCEPT ![c] = "send2"]
            /\ attempts' = [attempts EXCEPT ![c] = Append(@, RetryAttempt(@[1]))]
            /\ event' = Logged([kind |-> "retry", caller |-> c, op |-> op[c],
                                request |-> request[c], attempts |-> attempts'[c],
                                send |-> res, body |-> None, outcome |-> NoOutcome,
                                status |-> 0, tail |-> "unread", steps |-> <<>>])
            /\ UNCHANGED <<op, request, done>>
       ELSE Return(c, op[c], request[c], attempts[c], res, NoStream,
                   CallResult(op[c], Err("Hyper", res)))
    /\ UNCHANGED <<serial, token, nonce, lock, issued>>

\* (faulty variant of the next action: a stale re-send is re-sent again)
RetrySendLoops(c, res) ==
    /\ pc[c] = "send2"
    /\ IF res = SendOk
       THEN /\ pc' = [pc EXCEPT ![c] = "recv"]
            /\ event' = NoEvent
            /\ UNCHANGED <<op, request, attempts, done>>
       ELSE IF IsStaleConnection(res) /\ Len(attempts[c]) < 4
       THEN /\ attempts' = [attempts EXCEPT ![c] = Append(@, RetryAttempt(@[1]))]
            /\ event' = Logged([kind |-> "retry", caller |-> c, op |-> op[c],
                                request |-> request[c], attempts |-> attempts'[c],
                                send |-> res, body |-> None, outcome |-> NoOutcome,
                                status |-> 0, tail |-> "unread", steps |-> <<>>])
            /\ UNCHANGED <<pc, op, request, done>>
       ELSE Return(c, op[c], request[c], attempts[c], res, NoStream,
                   CallResult(op[c], Err("Hyper", res)))
    /\ UNCHANGED <<serial, token, nonce, lock, issued>>

\* (faulty variant of the next action: after a stale re-send the call starts
\* over with its first send)
RetrySendStartsOver(c, res) ==
    /\ pc[c] = "send2"
    /\ IF res = SendOk
       THEN /\ pc' = [pc EXCEPT ![c] = "recv"]
            /\ event' = NoEvent
            /\ UNCHANGED <<op, request, attempts, done>>
       ELSE IF IsStaleConnection(res)
       THEN /\ pc' = [pc EXCEPT ![c] = "send1"]
            /\ attempts' = [attempts EXCEPT ![c] = <<@[1]>>]
            /\ event' = NoEvent
            /\ UNCHANGED <<op, request, done>>
       ELSE Return(c, op[c], request[c], attempts[c], res, NoStream,
                   CallResult(op[c], Err("Hyper", res)))
    /\ UNCHANGED <<serial, token, nonce, lock, issued>>

\* The re-send returns: a stream, or any error, returned as Error::Hyper.
RetrySendReturns(c, res) ==
    /\ pc[c] = "send2"
    /\ IF res = SendOk
       THEN /\ pc' = [pc EXCEPT ![c] = "recv"]
            /\ event' = NoEvent
            /\ UNCHANGED <<op, request, attempts, done>>
       ELSE Return(c, op[c], request[c], attempts[c], res, NoStream,
                   CallResult(op[c], Err("Hyper", res)))
    /\ UNCHANGED <<serial, token, nonce, lock, issued>>

\* The body is read and parsed, the stream drained, the response validated;
\* do_rpc then unwraps the response.
Receive(c, stream) ==
    /\ pc[c] = "recv"
    /\ Return(c, op[c], request[c], attempts[c], SendOk, stream,
              CallResult(op[c], SendRequestResult(request[c], stream)))
    /\ UNCHANGED <<serial, token, nonce, lock, issued>>

\* (faulty variant of the next action: the accessor increments the nonce)
LastNonceDraws(c) ==
    /\ MayEnter(c)
    /\ MutexAvailable(lock)
    /\ nonce' = nonce + 1
    /\ Return(c, "last_nonce", NoRequest, <<>>, Pending, NoStream, Ok(nonce))
    /\ UNCHANGED <<serial, token, lock, issued>>

\* last_nonce: *self.nonce.lock().unwrap()
LastNonce(c) ==
    /\ MayEnter(c)
    /\ MutexAvailable(lock)
    /\ Return(c, "last_nonce", NoRequest, <<>>, Pending, NoStream, Ok(nonce))
    /\ UNCHANGED <<serial, token, nonce, lock, issued>>

SendResultsOf(oneByOne) == IF oneByOne THEN SendResults ELSE FewSendResults
BodiesOf(oneByOne) == IF oneByOne THEN Bodies ELSE FewBodies
StreamsOf(oneByOne) == IF oneByOne THEN Streams ELSE FewStreams
IssuedRequests == {issued[i] : i \in 1..Len(issued)}

Next ==
    \/ \E c \in Callers, o \in {"do_rpc", "build_request"}, name \in Methods,
          params \in ParamValues : CallBuild(c, o, name, params)
    \/ \E c \in Callers : BuildIncrement(c)
    \/ \E c \in Callers : BuildRequestReturns(c)
    \/ \E c \in Callers, serialized \in BOOLEAN : DoRpcSends(c, serialized)
    \/ \E c \in Callers, req \in IssuedRequests, serialized \in BOOLEAN :
          CallSendRequest(c, req, serialized)
    \/ \E c \in Callers, res \in SendResultsOf(serial) : FirstSendReturns(c, res)
    \/ \E c \in Callers, res \in SendResultsOf(serial) : RetrySendReturns(c, res)
    \/ \E c \in Callers, stream \in StreamsOf(serial) : Receive(c, stream)
    \/ \E c \in Callers : LastNonce(c)

Spec == Init /\ [][Next]_vars
SerialSpec == InitSerial /\ [][Next]_vars

\* The steps of a call in progress.  The thread of caller c runs on: the
\* statements of build_request and the hand-over to send_request are taken once
\* they can be.  A send that is in flight returns.  Whether the read of the
\* response stream (from_reader, then the drain) ends is up to the peer.
LocalStep(c) ==
    \/ BuildIncrement(c)
    \/ BuildRequestReturns(c)
    \/ \E serialized \in BOOLEAN : DoRpcSends(c, serialized)
SendReturns(c) ==
    \/ \E res \in SendResultsOf(serial) : FirstSendReturns(c, res)
    \/ \E res \in SendResultsOf(serial) : RetrySendReturns(c, res)
ReadEnds(c) == \E stream \in StreamsOf(serial) : Receive(c, stream)

\* Overlapping callers whose threads run on and whose sends return.
FairSpec ==
    /\ Init /\ [][Next]_vars
    /\ \A c \in Callers : WF_vars(LocalStep(c)) /\ WF_vars(SendReturns(c))

\* ------------------------------------------------------------------ claims
SeqToSet(q) == {q[i] : i \in 1..Len(q)}
Returned(o) == event.kind = "return" /\ event.op = o

\* C1: however the build_request executions of the callers interleave, the ids
\* of the N requests returned so far are exactly 1..N, each issued once.
C1_IssuedIdsAreOneToN ==
    /\ {r.id : r \in SeqToSet(issued)} = {Number(k) : k \in 1..Len(issued)}
    /\ Cardinality({r.id : r \in SeqToSet(issued)}) = Len(issued)

\* Two callers have each drawn a nonce and both calls are still in progress.
C1_Witness ==
    /\ ~serial
    /\ Len(issued) = 2
    /\ Cardinality({c \in Callers : pc[c] \in {"send1", "send2", "recv"}
                                    /\ op[c] = "do_rpc"}) = 2

\* C5: when no call is in progress the nonce equals the number of calls that
\* drew one: each do_rpc (and each build_request) that has returned, whatever
\* it returned and whether or not it re-sent, raised the nonce by exactly one.
C5_NonceCountsCompletedCalls ==
    InProgress = {} => nonce = done["do_rpc"] + done["build_request"]

\* Two do_rpc calls and nothing else have completed, the last one with an error.
C5_Witness ==
    /\ InProgress = {}
    /\ done["do_rpc"] = 2 /\ done["build_request"] = 0
    /\ Returned("do_rpc") /\ event.outcome.kind = "Hyper"
    /\ nonce = 2

\* C9: last_nonce returns the number of build_request executions completed
\* (so 0 on a fresh Client) when none is in progress, and leaves the nonce at
\* the value it returned.
C9_LastNonceCountsBuilds ==
    Returned("last_nonce") =>
        /\ event.outcome.kind = "Ok"
        /\ (Building = {} => event.outcome.value = Len(issued))
        /\ nonce = event.outcome.value

\* last_nonce returns 2 after two builds.
C9_Witness ==
    Returned("last_nonce") /\ event.outcome = Ok(2) /\ Len(issued) = 2

\* C10: two requests returned by different build_request executions differ in
\* their id, and so as Requests, also when method and params are the same.
C10_BuiltRequestsDiffer ==
    \A i, j \in 1..Len(issued) :
        i # j => issued[i].id # issued[j].id /\ issued[i] # issued[j]

\* Two requests with the same method and params have been built.
C10_Witness ==
    /\ Len(issued) = 2
    /\ issued[1].method = issued[2].method
    /\ issued[1].params = issued[2].params
    /\ Returned("build_request")

\* ---- claims about one call, checked in the serial runs (SerialSpec)
\* The send whose result the event reports failed, and was the first of its call.
FirstSendFailed ==
    /\ event.send \in HyperErrors
    /\ \/ event.kind = "retry"
       \/ event.kind = "return" /\ Len(event.attempts) = 1
BrokenPipeOrAborted(e) == e = IoError("BrokenPipe") \/ e = IoError("ConnectionAborted")
SendsInProgress(n) == \A c \in Callers : Len(attempts[c]) <= n

\* C2: a first send that fails with Io BrokenPipe or ConnectionAborted is
\* followed by one re-send, of the same bytes under the same headers, which
\* are those of the request built for the call; no nonce is drawn for it.
C2_StaleSendIsResentUnchanged ==
    (FirstSendFailed /\ BrokenPipeOrAborted(event.send)) =>
        /\ event.kind = "retry"
        /\ Len(event.attempts) = 2
        /\ event.attempts[2].bytes = event.attempts[1].bytes
        /\ event.attempts[2].headers = event.attempts[1].headers
        /\ event.attempts[2].bytes = ToVec(event.request)
        /\ event.request \in SeqToSet(issued)
        /\ nonce = Len(issued)
        /\ pc[event.caller] = "send2" /\ attempts[event.caller] = event.attempts

\* A do_rpc with a bearer token re-sends after ConnectionAborted.
C2_Witness ==
    /\ event.kind = "retry" /\ event.op = "do_rpc"
    /\ event.send = IoError("ConnectionAborted")
    /\ token # None
    /\ Len(event.attempts) = 2

\* C3: a call sends at most twice, and a re-send that fails, with whatever
\* error, ends the call with that error as Error::Hyper.
C3_AtMostTwoSends ==
    /\ SendsInProgress(2)
    /\ Len(event.attempts) <= 2
    /\ (event.kind = "return" /\ Len(event.attempts) = 2 /\ event.send \in HyperErrors) =>
           event.outcome = Err("Hyper", event.send)

\* The re-send fails with BrokenPipe as well and the call returns.
C3_Witness ==
    /\ event.kind = "return"
    /\ Len(event.attempts) = 2
    /\ event.send = IoError("BrokenPipe")
    /\ event.outcome.kind = "Hyper"

\* C4: a first send that fails with any other error (ConnectionReset, an error
\* that is no Io error) ends the call at once with that error as Error::Hyper.
C4_OtherErrorIsNotRetried ==
    (FirstSendFailed /\ ~BrokenPipeOrAborted(event.send)) =>
        /\ event.kind = "return"
        /\ Len(event.attempts) = 1
        /\ event.outcome = Err("Hyper", event.send)

\* A first send fails with ConnectionReset.
C4_Witness ==
    /\ event.kind = "return"
    /\ Len(event.attempts) = 1
    /\ event.send = IoError("ConnectionReset")
    /\ event.outcome.kind = "Hyper"

\* The call that returned got as far as a body that parses as a Response.
GotResponse == event.kind = "return" /\ event.body # None /\ event.body # Malformed
TheResponse == event.body[2]
VersionAccepted(r) == r.jsonrpc = None \/ r.jsonrpc = Some("2.0")

\* C6 as stated: a response whose id is not the request's id is rejected with
\* NonceMismatch.
C6_IdMismatchGivesNonceMismatch ==
    (GotResponse /\ TheResponse.id # event.request.id) =>
        event.outcome.kind = "NonceMismatch"

\* C6 amended: a response whose id is not the request's id (null, or another
\* number) is rejected, whatever its payload: with NonceMismatch when its
\* version marker is absent or "2.0", and with VersionMismatch otherwise.
C6_IdMismatchRejected ==
    (GotResponse /\ TheResponse.id # event.request.id) =>
        event.outcome.kind =
            IF VersionAccepted(TheResponse) THEN "NonceMismatch" ELSE "VersionMismatch"

\* send_request rejects a response with a null id, version "2.0" and a result.
C6_Witness ==
    /\ GotResponse /\ event.op = "send_request"
    /\ TheResponse.id = Null /\ event.request.id = Number(1)
    /\ TheResponse.jsonrpc = Some("2.0")
    /\ TheResponse.result = Some(Number(42)) /\ TheResponse.error = None
    /\ event.outcome.kind = "NonceMismatch"

\* C7: a response with a version marker other than "2.0" is rejected with
\* VersionMismatch; one with no marker, or with "2.0", never is.
C7_VersionCheck ==
    GotResponse =>
        (event.outcome.kind = "VersionMismatch" <=>
            (TheResponse.jsonrpc # None /\ TheResponse.jsonrpc # Some("2.0")))

\* A response without a version marker, with the request's id, is accepted.
C7_Witness ==
    /\ GotResponse /\ event.op = "send_request"
    /\ TheResponse.jsonrpc = None
    /\ TheResponse.id = event.request.id
    /\ event.outcome = Ok(TheResponse)

\* C8 as stated: do_rpc turns a response that carries an error payload into
\* an RpcError with that payload.
C8_ErrorPayloadGivesRpcError ==
    (GotResponse /\ event.op = "do_rpc" /\ TheResponse.error # None) =>
        event.outcome = Err("Rpc", TheResponse.error[2])

\* C8 amended: do_rpc never returns Ok for a response that carries an error
\* payload, and returns the RpcError with that payload when the response
\* passes the version check and the id check.
C8_ErrorPayloadNeverOk ==
    (GotResponse /\ event.op = "do_rpc" /\ TheResponse.error # None) =>
        /\ event.outcome.kind # "Ok"
        /\ (VersionAccepted(TheResponse) /\ TheResponse.id = event.request.id) =>
               event.outcome = Err("Rpc", TheResponse.error[2])

\* do_rpc gets a valid response that carries both a result and an error.
C8_Witness ==
    /\ GotResponse /\ event.op = "do_rpc"
    /\ TheResponse.error = Some(RpcErrorPayload)
    /\ TheResponse.result = Some(Number(42))
    /\ TheResponse.id = event.request.id
    /\ event.outcome = Err("Rpc", RpcErrorPayload)

\* The call that returned read a stream (its send, or its re-send, succeeded).
ReadStream == event.kind = "return" /\ event.body # None
OutcomeFor(status, tail) ==
    CallResult(event.op,
               SendRequestResult(event.request, Stream(status, event.body, tail)))

\* C11: what a call returns does not depend on the HTTP status of the
\* response: with the same request, body and rest of the stream, every status
\* gives the outcome the call had.
C11_StatusIsIgnored ==
    ReadStream => \A st \in Statuses : event.outcome = OutcomeFor(st, event.tail)

\* do_rpc returns the result of a response that came with status 500.
C11_Witness ==
    /\ ReadStream /\ event.op = "do_rpc"
    /\ event.status = 500
    /\ event.outcome = Ok(42)

\* C12: a call whose request cannot be serialized returns the Json error
\* of to_vec without having sent anything.
C12_SerializationFailureSendsNothing ==
    (event.kind = "return" /\ event.outcome = Err("Json", "to_vec")) =>
        /\ event.attempts = <<>>
        /\ event.send = Pending
        /\ event.body = None
        /\ attempts[event.caller] = <<>>

\* do_rpc returns the serializer's error.
C12_Witness ==
    /\ Returned("do_rpc")
    /\ event.outcome = Err("Json", "to_vec")
    /\ event.attempts = <<>>
    /\ event.request.id = Number(1)

\* C13: a response with both a version marker other than "2.0" and an id
\* other than the request's is rejected with VersionMismatch.
C13_VersionBeforeId ==
    (GotResponse /\ ~VersionAccepted(TheResponse)
                 /\ TheResponse.id # event.request.id) =>
        /\ event.outcome.kind = "VersionMismatch"
        /\ event.steps = <<"parse", "drain", "version">>

\* A response with version "1.0" and a null id.
C13_Witness ==
    /\ GotResponse
    /\ TheResponse.jsonrpc = Some("1.0") /\ TheResponse.id = Null
    /\ event.outcome.kind = "VersionMismatch"

\* C14: no step decreases the nonce; an id that build_request returns is
\* greater than every id it returned before, to the same caller or to any
\* other; and 0 is never an issued id.
C14_NonceAndIdsOnlyGrow ==
    [][/\ nonce' >= nonce
       /\ issued' # issued =>
              \A i \in 1..Len(issued) : issued'[Len(issued')].id[2] > issued[i].id[2]
       /\ \A i \in 1..Len(issued') :
              issued'[i].id # Number(0) /\ issued'[i].id[2] >= 1]_vars

\* build_request returns id 2 after id 1 was issued, while another caller is
\* still using the Request with id 1.
C14_Witness ==
    /\ Returned("build_request")
    /\ event.outcome.kind = "Ok"
    /\ event.outcome.value.id = Number(2)
    /\ issued = <<[event.outcome.value EXCEPT !.id = Number(1)], event.outcome.value>>
    /\ \E c \in Callers : c # event.caller /\ request[c].id = Number(1)
                          /\ pc[c] \in {"send1", "send2", "recv"}

\* C16: a call that parsed a Response envelope drained the rest of the
\* stream right after the parse and before the version and id checks, whatever
\* it then returns, and what the drain met never changes what the call returns.
C16_DrainBeforeValidation ==
    GotResponse =>
        /\ Len(event.steps) >= 3
        /\ event.steps[1] = "parse" /\ event.steps[2] = "drain"
        /\ \A i \in 1..Len(event.steps) :
               event.steps[i] \in {"version", "id"} => i > 2
        /\ event.outcome.kind \in {"Ok", "VersionMismatch", "NonceMismatch", "Rpc", "Json"}
        /\ \A t \in Tails : event.outcome = OutcomeFor(event.status, t)

\* send_request returns the envelope although reading the rest of the stream
\* failed.
C16_Witness ==
    /\ GotResponse /\ event.op = "send_request"
    /\ event.tail = "error"
    /\ event.steps = <<"parse", "drain", "version", "id">>
    /\ event.outcome = Ok(TheResponse)

\* C17: when the response carries an error payload, do_rpc returns
\* VersionMismatch if the version marker is not accepted, otherwise
\* NonceMismatch if the id is not the request's, and the payload as an Rpc error
\* only when both checks pass.
C17_ValidationBeforeErrorPayload ==
    (GotResponse /\ event.op = "do_rpc" /\ TheResponse.error # None) =>
        /\ event.outcome.kind =
               IF ~VersionAccepted(TheResponse) THEN "VersionMismatch"
               ELSE IF TheResponse.id # event.request.id THEN "NonceMismatch"
               ELSE "Rpc"
        /\ event.outcome.kind = "Rpc" => event.outcome.value = TheResponse.error[2]

\* A server error reported with a null id gives NonceMismatch.
C17_Witness ==
    /\ GotResponse /\ event.op = "do_rpc"
    /\ TheResponse.error # None /\ TheResponse.id = Null
    /\ VersionAccepted(TheResponse)
    /\ event.outcome.kind = "NonceMismatch"

\* The position of a call: each step of a call moves it forward or ends it.
Rank(p) ==
    CASE p = "idle" -> 0
      [] p = "build_inc" -> 1
      [] p = "build_ret" -> 2
      [] p = "send1" -> 3
      [] p = "send2" -> 4
      [] p = "recv" -> 5
EveryCallReturns == \A c \in Callers : (pc[c] # "idle") ~> (pc[c] = "idle")

\* C15 as stated: if every send returns, every call in progress returns.
C15_ReturnsIfSendsReturn == EveryCallReturns

\* C15: if every send returns and every read of a response stream ends,
\* every call in progress returns; a step of a call never takes it back to an
\* earlier position, and a call has at most two sends.
C15_ReturnsIfSendsReturnAndReadsEnd ==
    /\ (\A c \in Callers : WF_vars(ReadEnds(c))) => EveryCallReturns
    /\ [][\A c \in Callers :
             /\ pc'[c] # pc[c] => (pc'[c] = "idle" \/ Rank(pc'[c]) > Rank(pc[c]))
             /\ Len(attempts'[c]) <= 2]_vars

\* do_rpc returns a result while a call of another caller is reading its
\* response stream after a re-send.
C15_Witness ==
    /\ Returned("do_rpc") /\ event.outcome.kind = "Ok"
    /\ \E c \in Callers : c # event.caller /\ pc[c] = "recv" /\ Len(attempts[c]) = 2

\* Caller c is inside send_request with a send or the read of the stream ahead.
Sending(c) == pc[c] \in {"send1", "send2", "recv"}

\* C18: no step of send_request, from its entry to its return, whatever the
\* outcome, changes the nonce (nor takes its lock, nor issues a Request); what
\* a public send_request sends is the Request it was given, an issued one with
\* its id as built.
C18_SendRequestLeavesNonce ==
    [][\A c \in Callers :
          /\ \/ Sending(c) /\ pc'[c] # pc[c]
             \/ pc[c] = "idle" /\ pc'[c] = "send1"
             \/ event'.kind = "return" /\ event'.op = "send_request"
                                       /\ event'.caller = c
             => nonce' = nonce /\ lock' = lock /\ issued' = issued
          /\ (Sending(c)' /\ op'[c] = "send_request") =>
                /\ request'[c] \in SeqToSet(issued')
                /\ request'[c].id[2] <= nonce'
                /\ \A i \in 1..Len(attempts'[c]) :
                       attempts'[c][i].bytes = ToVec(request'[c])]_vars

\* Two callers are sending the same Request through send_request: both sends
\* carry id 1 and the nonce is still 1.
C18_Witness ==
    /\ nonce = 1
    /\ \E c, d \in Callers :
          /\ c # d /\ Sending(c) /\ Sending(d)
          /\ op[c] = "send_request" /\ op[d] = "send_request"
          /\ request[c] = request[d] /\ request[c].id = Number(1)
          /\ Len(attempts[c]) = 2
          /\ attempts[d][1].bytes = attempts[c][2].bytes

\* C19: the guard of the nonce is held only by a caller inside
\* build_request (last_nonce takes and drops it in one step), never by a caller
\* with a send in flight or a stream to read; so whatever the senders do, the
\* holder of the guard can take its next step, and when the guard is free every
\* idle caller can read last_nonce and, while builds remain, build a request.
C19_NoLockAcrossSend ==
    /\ lock # 0 => lock \in Building
    /\ \A c \in Callers : Sending(c) => lock # c
    /\ \A c \in Building : lock = c /\ ENABLED LocalStep(c)
    /\ \A c \in Callers : Sending(c) => ENABLED (SendReturns(c) \/ ReadEnds(c))
    /\ (lock = 0 /\ \E c \in Callers : Sending(c)) =>
           \A d \in Callers : pc[d] = "idle" =>
               /\ ENABLED LastNonce(d)
               /\ Len(issued) + Cardinality(Building) < MaxBuilds =>
                      ENABLED (\E o \in {"do_rpc", "build_request"}, name \in Methods,
                                  params \in ParamValues : CallBuild(d, o, name, params))

\* While the send of one caller's do_rpc is in flight, another caller holds the
\* guard inside build_request.
C19_Witness ==
    \E c, d \in Callers :
        /\ pc[c] = "send1" /\ op[c] = "do_rpc"
        /\ lock = d /\ pc[d] = "build_ret" /\ op[d] = "build_request"
        /\ nonce = 2

====
